---- MODULE Spec2Model ----
(***************************************************************************)
(* Payroll calculation kernel (src/main.py, src/schemas.py).               *)
(*                                                                         *)
(* Number representation.  The program works on Python floats.  The model  *)
(* works in exact decimal fixed point:                                     *)
(*   - a monetary amount is an integer number of mills (0.001), so that    *)
(*     amounts with three decimals (below one cent) are inputs;            *)
(*   - a rate is an integer number of 1/10000 (0.0367 is 367);             *)
(*   - round(x, 2) is rounding to a whole number of cents (a multiple of   *)
(*     10 mills), ties to the even cent, as Python's round() documents.    *)
(* The binary representation error of a float (which decides the direction *)
(* of a decimal tie in CPython) is abstracted.                             *)
(***************************************************************************)
EXTENDS Integers, Sequences, FiniteSets, TLC

VARIABLES pc, payload, result

vars == <<pc, payload, result>>

(* ------------------------------ bounds -------------------------------- *)

\* other_earnings ranges over 0 .. MaxSubCent mills: every sub-cent amount,
\* the half-cent tie (5) and one whole cent (10).
MaxSubCent == 10

BasicValues == {0, 10000000, 16000000}
HraValues == {0, 4000000}
DaValues == {0, 7000000}
ConveyanceValues == {0}
SpecialAllowanceValues == {0, 7000000}
OvertimeValues == {0, 125}
BonusValues == {0, -2000000}
PtValues == {0, 200000}
OtherDeductionValues == {0, 12346}
CeilingValues == {0, 15000000, 15000005}
ThresholdValues == {21000000, 14000000}

(* --------------------------- src/schemas.py --------------------------- *)

\* class SalaryStructure: eight float fields.
SalaryStructure ==
    [basic : BasicValues, hra : HraValues, da : DaValues,
     conveyance : ConveyanceValues, special_allowance : SpecialAllowanceValues,
     overtime : OvertimeValues, bonus : BonusValues,
     other_earnings : 0 .. MaxSubCent]

\* Mutant of PayrollConfigDefaults: the EDLI default typed as 5% for 0.5%.
PayrollConfigDefaults_edli_typo ==
    [epf_employee_rate |-> 1200,
     epf_employer_rate |-> 367,
     eps_employer_rate |-> 833,
     epf_wage_ceiling |-> 15000000,
     edli_rate |-> 500,
     epf_admin_rate |-> 50,
     esi_employee_rate |-> 75,
     esi_employer_rate |-> 325,
     esi_wage_threshold |-> 21000000]

\* class PayrollConfig: the field defaults.
PayrollConfigDefaults ==
    [epf_employee_rate |-> 1200,
     epf_employer_rate |-> 367,
     eps_employer_rate |-> 833,
     epf_wage_ceiling |-> 15000000,
     edli_rate |-> 50,
     epf_admin_rate |-> 50,
     esi_employee_rate |-> 75,
     esi_employer_rate |-> 325,
     esi_wage_threshold |-> 21000000]

\* A caller's override of every rate.
OverriddenRates ==
    [PayrollConfigDefaults EXCEPT
        !.epf_employee_rate = 1000,
        !.epf_employer_rate = 167,
        !.eps_employer_rate = 1000,
        !.edli_rate = 25,
        !.epf_admin_rate = 65,
        !.esi_employee_rate = 175,
        !.esi_employer_rate = 475]

\* class PayrollConfig: defaults, with any subset overridden by the caller.
PayrollConfig ==
    { [r EXCEPT !.epf_wage_ceiling = c, !.esi_wage_threshold = t] :
        r \in {PayrollConfigDefaults, OverriddenRates},
        c \in CeilingValues, t \in ThresholdValues }

\* class PayrollRun.
PayrollRun ==
    [employee_code : {"E001"}, month : {"2024-01"},
     earnings : SalaryStructure,
     pt_amount : PtValues,
     other_deductions : OtherDeductionValues,
     non_account_worker : BOOLEAN,
     config : PayrollConfig]

(* ---------------------------- src/main.py ----------------------------- *)

\* Round-half-even of q + r/d, where 0 <= r < d.
RoundHalfEven(q, r, d) ==
    IF 2 * r < d THEN q
    ELSE IF 2 * r > d THEN q + 1
    ELSE IF q % 2 = 0 THEN q ELSE q + 1

\* rd = lambda x: round(float(x or 0), 2), on an amount in mills.
rd(x) == 10 * RoundHalfEven(x \div 10, x % 10, 10)

\* rd(amount * rate): the product is amount*rate in units of 1e-7, one cent
\* is 100000 of them.  The amount is split so that no intermediate value
\* leaves the 32-bit range.
rd_product(amount, rate) ==
    LET hi == amount \div 100000
        lo == amount % 100000
    IN 10 * RoundHalfEven(hi * rate + ((lo * rate) \div 100000),
                          (lo * rate) % 100000, 100000)

\* min(a, b)
min(a, b) == IF a <= b THEN a ELSE b

\* earnings_gross: the raw sum of the eight components.
earnings_gross(s) ==
    s.basic + s.hra + s.da + s.conveyance + s.special_allowance
    + s.overtime + s.bonus + s.other_earnings

\* pf_wage = basic + da
pf_wage(s) == s.basic + s.da

\* Mutant of pf_wage_capped: the cap is forgotten.
pf_wage_capped_nocap(s, cfg) == pf_wage(s)

\* pf_wage_capped = min(pf_wage, ceiling) if ceiling > 0 else pf_wage
pf_wage_capped(s, cfg) ==
    IF cfg.epf_wage_ceiling > 0
    THEN min(pf_wage(s), cfg.epf_wage_ceiling)
    ELSE pf_wage(s)

\* Mutant of eps_base: the uncapped PF wage is used as the EPS base.
eps_base_uncapped(s, cfg) == pf_wage(s)

\* Mutant of eps_base: the two ceiling computations are merged into one.
eps_base_deduplicated(s, cfg) == pf_wage_capped(s, cfg)

\* eps_base = min(pf_wage, cfg.epf_wage_ceiling)
eps_base(s, cfg) == min(pf_wage(s), cfg.epf_wage_ceiling)

\* Mutant of pf_branch: the worker classification gate is dropped.
pf_branch_always(p) == TRUE

\* if not payload.non_account_worker:
pf_branch(p) == ~p.non_account_worker

\* Mutant of esi_branch: strict comparison with the threshold.
esi_branch_strict(p) ==
    pf_branch(p) /\ earnings_gross(p.earnings) < p.config.esi_wage_threshold

\* Mutant of esi_branch: the reported (rounded) gross is compared.
esi_branch_rounded(p) ==
    pf_branch(p) /\ rd(earnings_gross(p.earnings)) <= p.config.esi_wage_threshold

\* if earnings_gross <= cfg.esi_wage_threshold: (inside the branch above)
esi_branch(p) ==
    pf_branch(p) /\ earnings_gross(p.earnings) <= p.config.esi_wage_threshold

\* statutory_deductions
statutory_deductions(p) ==
    LET s == p.earnings
        cfg == p.config
    IN [EPF |-> IF pf_branch(p)
                THEN rd_product(pf_wage_capped(s, cfg), cfg.epf_employee_rate)
                ELSE 0,
        ESI |-> IF esi_branch(p)
                THEN rd_product(earnings_gross(s), cfg.esi_employee_rate)
                ELSE 0,
        PT |-> rd(p.pt_amount),
        Other |-> rd(p.other_deductions)]

\* employer_contributions
employer_contributions(p) ==
    LET s == p.earnings
        cfg == p.config
    IN [EPS |-> IF pf_branch(p)
                THEN rd_product(eps_base(s, cfg), cfg.eps_employer_rate)
                ELSE 0,
        EPF |-> IF pf_branch(p)
                THEN rd_product(pf_wage_capped(s, cfg), cfg.epf_employer_rate)
                ELSE 0,
        EDLI |-> IF pf_branch(p)
                 THEN rd_product(eps_base(s, cfg), cfg.edli_rate)
                 ELSE 0,
        Admin |-> IF pf_branch(p)
                  THEN rd_product(eps_base(s, cfg), cfg.epf_admin_rate)
                  ELSE 0,
        ESI |-> IF esi_branch(p)
                THEN rd_product(earnings_gross(s), cfg.esi_employer_rate)
                ELSE 0]

\* total_deductions = rd(sum(statutory_deductions.values()))
total_deductions(sd) == rd(sd.EPF + sd.ESI + sd.PT + sd.Other)

\* Mutant of net_salary: the deductions are added instead of subtracted.
net_salary_sign(gross, total) == rd(gross + total)

\* net_salary = rd(earnings_gross - total_deductions)
net_salary(gross, total) == rd(gross - total)

\* Mutant of employer_cost: the employer's ESI share is left out of the sum.
employer_cost_no_esi(gross, ec) ==
    rd(gross + (ec.EPS + ec.EPF + ec.EDLI + ec.Admin))

\* employer_cost = rd(earnings_gross + sum(employer_contributions.values()))
employer_cost(gross, ec) ==
    rd(gross + (ec.EPS + ec.EPF + ec.EDLI + ec.Admin + ec.ESI))

\* def compute_payroll(payload: PayrollRun) -> PayrollResult
compute_payroll(p) ==
    LET s == p.earnings
        cfg == p.config
        gross == earnings_gross(s)
        sd == statutory_deductions(p)
        total == total_deductions(sd)
        net == net_salary(gross, total)
        ec == employer_contributions(p)
        cost == employer_cost(gross, ec)
    IN [earnings_gross |-> rd(gross),
        statutory_deductions |-> sd,
        employer_contributions |-> ec,
        net_salary |-> net,
        employer_cost |-> cost,
        breakdown |->
            [earnings_gross |-> rd(gross),
             pf_wage |-> rd(pf_wage(s)),
             pf_wage_capped |-> rd(pf_wage_capped(s, cfg)),
             total_deductions |-> total,
             net_salary |-> net,
             employer_cost |-> cost]]

\* No response has been produced yet.
NoResult == [pending |-> TRUE]

\* A validated PayrollRun has arrived at POST /api/payroll/calculate.
Init ==
    /\ pc = "request"
    /\ payload \in PayrollRun
    /\ result = NoResult

\* def calculate_payroll(payload): return compute_payroll(payload)
calculate_payroll ==
    /\ pc = "request"
    /\ result' = compute_payroll(payload)
    /\ pc' = "response"
    /\ UNCHANGED payload

Next == calculate_payroll

Spec == Init /\ [][Next]_vars

(* ------------------------------ claims -------------------------------- *)

Done == pc = "response"

Abs(x) == IF x < 0 THEN -x ELSE x

RawGross == earnings_gross(payload.earnings)
PfWage == pf_wage(payload.earnings)
Ceiling == payload.config.epf_wage_ceiling
Threshold == payload.config.esi_wage_threshold

\* C1: with non_account_worker = true, employee EPF and ESI and the five
\* employer contributions are all exactly 0, whatever the other fields are.
C1_NonAccountWorkerZeroing ==
    (Done /\ payload.non_account_worker) =>
        /\ result.statutory_deductions.EPF = 0
        /\ result.statutory_deductions.ESI = 0
        /\ result.employer_contributions.EPS = 0
        /\ result.employer_contributions.EPF = 0
        /\ result.employer_contributions.EDLI = 0
        /\ result.employer_contributions.Admin = 0
        /\ result.employer_contributions.ESI = 0

\* C1 witness: a non-account worker with a positive PF wage and a positive
\* gross within the ESI threshold has been computed.
C1_Witness ==
    /\ Done
    /\ payload.non_account_worker
    /\ PfWage > 0
    /\ Ceiling > 0
    /\ RawGross > 0
    /\ RawGross <= Threshold

\* C2: for an account worker, gross exactly at the ESI threshold gets both
\* ESI amounts (round2 of gross x rate); gross one cent above gets 0 and 0.
C2_EsiThresholdBoundary ==
    (Done /\ ~payload.non_account_worker) =>
        /\ (RawGross = Threshold =>
              /\ result.statutory_deductions.ESI =
                    rd_product(RawGross, payload.config.esi_employee_rate)
              /\ result.employer_contributions.ESI =
                    rd_product(RawGross, payload.config.esi_employer_rate))
        /\ (RawGross = Threshold + 10 =>
              /\ result.statutory_deductions.ESI = 0
              /\ result.employer_contributions.ESI = 0)

\* C2 witness: an account worker with gross exactly at the threshold has
\* nonzero ESI amounts.
C2_Witness ==
    /\ Done
    /\ ~payload.non_account_worker
    /\ RawGross = Threshold
    /\ result.statutory_deductions.ESI > 0
    /\ result.employer_contributions.ESI > 0

\* C3 as stated: for every nonnegative ceiling, a PF wage below the ceiling
\* reports pf_wage_capped = pf_wage, and a PF wage above it reports
\* pf_wage_capped = the ceiling value exactly.
C3_Original ==
    Done =>
        /\ (PfWage < Ceiling =>
              result.breakdown.pf_wage_capped = result.breakdown.pf_wage)
        /\ (PfWage > Ceiling =>
              result.breakdown.pf_wage_capped = Ceiling)

\* C3 amended: for a ceiling > 0, a PF wage below the ceiling reports
\* pf_wage_capped = pf_wage and a PF wage above it reports the ceiling
\* rounded to two decimals; for a ceiling of 0 the cap is disabled and
\* pf_wage_capped = pf_wage for every PF wage.
C3_PfCeilingBoundary ==
    Done =>
        IF Ceiling > 0
        THEN /\ (PfWage < Ceiling =>
                   result.breakdown.pf_wage_capped = result.breakdown.pf_wage)
             /\ (PfWage > Ceiling =>
                   result.breakdown.pf_wage_capped = rd(Ceiling))
        ELSE result.breakdown.pf_wage_capped = result.breakdown.pf_wage

\* C3 witness: a PF wage above a positive ceiling has been capped.
C3_Witness ==
    /\ Done
    /\ Ceiling > 0
    /\ PfWage > Ceiling
    /\ result.breakdown.pf_wage_capped < result.breakdown.pf_wage

ExampleRun(naw) ==
    [employee_code |-> "E001", month |-> "2024-01",
     earnings |-> [basic |-> 10000000, hra |-> 4000000, da |-> 0,
                   conveyance |-> 0, special_allowance |-> 0, overtime |-> 0,
                   bonus |-> 0, other_earnings |-> 0],
     pt_amount |-> 200000,
     other_deductions |-> 0,
     non_account_worker |-> naw,
     config |-> PayrollConfigDefaults]

\* C6: the example scenario returns gross 14000, EPF 1200, ESI 105, PT 200,
\* Other 0, EPS 833, employer EPF 367, EDLI 50, Admin 50, employer ESI 455,
\* total deductions 1505, net 12495, employer cost 15755; as a non-account
\* worker it returns total deductions 200, net 13800, employer cost 14000.
C6_ExampleScenario ==
    /\ (Done /\ payload = ExampleRun(FALSE)) =>
          /\ result.earnings_gross = 14000000
          /\ result.statutory_deductions =
                [EPF |-> 1200000, ESI |-> 105000, PT |-> 200000, Other |-> 0]
          /\ result.employer_contributions =
                [EPS |-> 833000, EPF |-> 367000, EDLI |-> 50000,
                 Admin |-> 50000, ESI |-> 455000]
          /\ result.breakdown.total_deductions = 1505000
          /\ result.net_salary = 12495000
          /\ result.employer_cost = 15755000
    /\ (Done /\ payload = ExampleRun(TRUE)) =>
          /\ result.breakdown.total_deductions = 200000
          /\ result.net_salary = 13800000
          /\ result.employer_cost = 14000000

\* C6 witness: the example scenario of an account worker has been computed.
C6_Witness ==
    /\ Done
    /\ payload = ExampleRun(FALSE)
    /\ result.employer_contributions.EDLI > 0

\* C8: for an account worker and a ceiling > 0 the EPS base equals the
\* capped PF wage, so EPS, EDLI and Admin are round2 of the capped PF wage
\* times their rates, the base of employee and employer EPF.
C8_EpsBaseEqualsCapped ==
    (Done /\ ~payload.non_account_worker /\ Ceiling > 0) =>
        LET capped == pf_wage_capped(payload.earnings, payload.config)
            cfg == payload.config
        IN /\ eps_base(payload.earnings, cfg) = capped
           /\ result.employer_contributions.EPS = rd_product(capped, cfg.eps_employer_rate)
           /\ result.employer_contributions.EDLI = rd_product(capped, cfg.edli_rate)
           /\ result.employer_contributions.Admin = rd_product(capped, cfg.epf_admin_rate)
           /\ result.statutory_deductions.EPF = rd_product(capped, cfg.epf_employee_rate)
           /\ result.employer_contributions.EPF = rd_product(capped, cfg.epf_employer_rate)

\* C8 witness: an account worker whose PF wage exceeds a positive ceiling.
C8_Witness ==
    /\ Done
    /\ ~payload.non_account_worker
    /\ Ceiling > 0
    /\ PfWage > Ceiling
    /\ result.employer_contributions.EPS > 0

\* C9: for an account worker both ESI amounts are computed from the raw
\* gross exactly when the raw (unrounded) gross is <= the threshold, and are
\* 0 otherwise, whatever the reported rounded gross is.
C9_EsiOnRawGross ==
    (Done /\ ~payload.non_account_worker) =>
        IF RawGross <= Threshold
        THEN /\ result.statutory_deductions.ESI =
                   rd_product(RawGross, payload.config.esi_employee_rate)
             /\ result.employer_contributions.ESI =
                   rd_product(RawGross, payload.config.esi_employer_rate)
        ELSE /\ result.statutory_deductions.ESI = 0
             /\ result.employer_contributions.ESI = 0

\* C9 witness: the raw gross exceeds the threshold by less than half a
\* cent, the reported gross equals the threshold, and both ESI amounts are 0.
C9_Witness ==
    /\ Done
    /\ ~payload.non_account_worker
    /\ RawGross > Threshold
    /\ RawGross - Threshold < 5
    /\ result.earnings_gross = Threshold
    /\ payload.config.esi_employee_rate > 0
    /\ result.statutory_deductions.ESI = 0
    /\ result.employer_contributions.ESI = 0

\* C10: with a ceiling of 0, an account worker and a PF wage > 0, employee
\* and employer EPF are computed on the full PF wage while the EPS base is
\* 0, so EPS, EDLI and Admin are 0.
C10_ZeroCeilingTwoBases ==
    (Done /\ ~payload.non_account_worker /\ Ceiling = 0 /\ PfWage > 0) =>
        LET cfg == payload.config
        IN /\ pf_wage_capped(payload.earnings, cfg) = PfWage
           /\ result.breakdown.pf_wage_capped = result.breakdown.pf_wage
           /\ result.statutory_deductions.EPF = rd_product(PfWage, cfg.epf_employee_rate)
           /\ result.employer_contributions.EPF = rd_product(PfWage, cfg.epf_employer_rate)
           /\ eps_base(payload.earnings, cfg) = 0
           /\ result.employer_contributions.EPS = 0
           /\ result.employer_contributions.EDLI = 0
           /\ result.employer_contributions.Admin = 0

\* C10 witness: such a worker has a nonzero employee EPF and nonzero
\* EPS, EDLI and Admin rates.
C10_Witness ==
    /\ Done
    /\ ~payload.non_account_worker
    /\ Ceiling = 0
    /\ PfWage > 0
    /\ result.statutory_deductions.EPF > 0
    /\ payload.config.eps_employer_rate > 0
    /\ payload.config.edli_rate > 0
    /\ payload.config.epf_admin_rate > 0
    /\ result.employer_contributions.EPS = 0

====
